---- MODULE Spec2Model ----
(***************************************************************************)
(* Model of Bill.py: a Streamlit invoicing form over a SQLite file.        *)
(*                                                                         *)
(* Every browser session runs the script top to bottom on each widget      *)
(* event, in a thread of its own, against its own st.session_state and a   *)
(* shared database.db.  The state is the two tables, every session's       *)
(* session_state, the calendar date, the message the last script run       *)
(* displayed, and, for a run whose Delete button was clicked, the row it   *)
(* read from the history query and has not yet deleted.  deletedNos is a   *)
(* history variable, not program state: the invoice numbers whose header   *)
(* has been removed so far, recorded only by SpecLifecycle.                *)
(*                                                                         *)
(* Text (invoice numbers, names) is a sequence of one-character strings so *)
(* that formatting is computed digit by digit.  REAL amounts are exact     *)
(* fixed-point integers in units of 1/10000 rupee; rates are whole paise   *)
(* (multiples of 100 units), so the 9% taxes are exact and floating-point  *)
(* rounding is not modelled.  The columns id, phone, address and date are  *)
(* carried through by the code without being read again and are left out;  *)
(* a table is the sequence of its rows in id order.                        *)
(***************************************************************************)
EXTENDS Integers, Sequences, FiniteSets, TLC

VARIABLES invoices, invoice_items, session_state, today, clicked, msg,
          deletedNos

vars == <<invoices, invoice_items, session_state, today, clicked, msg,
          deletedNos>>

\* ------------------------------------------------------------- bounds
\* Rows of a draft and of the invoices table, for one user.
MaxItems == 2
MaxInvoices == 2
\* The same, when two sessions share the database.
MaxSharedItems == 1
MaxSharedInvoices == 1

\* Widget inputs; a rate of 2500 units is 0.25 rupee.
CustomerNames == {<<>>, <<" ">>, <<"A">>}
Products == {<<" ">>, <<"p">>}
Quantities == {2}
Rates == {2500}

\* datetime.today(), as (year, month), in the order the clock passes them.
Dates == << [year |-> 2024, month |-> 3], [year |-> 2024, month |-> 4],
            [year |-> 2099, month |-> 12] >>

None == <<>>

\* ------------------------------------------------------------- text
DigitChars == <<"0", "1", "2", "3", "4", "5", "6", "7", "8", "9">>

RECURSIVE Str(_)
Str(n) == IF n < 10 THEN <<DigitChars[n + 1]>>
          ELSE Str(n \div 10) \o <<DigitChars[(n % 10) + 1]>>

\* s[-2:]
LastTwo(s) == IF Len(s) <= 2 THEN s ELSE SubSeq(s, Len(s) - 1, Len(s))

RECURSIVE Zeros(_)
Zeros(k) == IF k <= 0 THEN <<>> ELSE <<"0">> \o Zeros(k - 1)

\* f"{serial:04d}"
Format04d(n) == Zeros(4 - Len(Str(n))) \o Str(n)

IsSpace(ch) == ch = " "

RECURSIVE LStrip(_)
LStrip(s) == IF s # <<>> /\ IsSpace(Head(s)) THEN LStrip(Tail(s)) ELSE s

RECURSIVE RStrip(_)
RStrip(s) == IF s # <<>> /\ IsSpace(s[Len(s)])
             THEN RStrip(SubSeq(s, 1, Len(s) - 1)) ELSE s

\* Mutant: the name is tested without .strip().
Strip_missing(s) == s

\* str.strip()
Strip(s) == RStrip(LStrip(s))

\* ------------------------------------------------------------- store reads
\* SELECT COUNT(*) FROM invoices
countInvoices(inv) == Len(inv)

HasInvoice(inv, no) == \E i \in 1..Len(inv) : inv[i].invoice_no = no

RECURSIVE Reverse(_)
Reverse(s) == IF s = <<>> THEN <<>> ELSE Reverse(Tail(s)) \o <<Head(s)>>

\* SELECT * FROM invoices ORDER BY id DESC
listInvoices(inv) == Reverse(inv)

RECURSIVE SelectNo(_, _)
SelectNo(rows, no) ==
    IF rows = <<>> THEN <<>>
    ELSE IF Head(rows).invoice_no = no
         THEN <<Head(rows)>> \o SelectNo(Tail(rows), no)
         ELSE SelectNo(Tail(rows), no)

\* SELECT * FROM invoice_items WHERE invoice_no=?
getItems(rows, no) == SelectNo(rows, no)

RECURSIVE RejectNo(_, _)
RejectNo(rows, no) ==
    IF rows = <<>> THEN <<>>
    ELSE IF Head(rows).invoice_no = no
         THEN RejectNo(Tail(rows), no)
         ELSE <<Head(rows)>> \o RejectNo(Tail(rows), no)

\* ------------------------------------------------------------- numbering
\* Mutant: the financial year turns with May instead of April.
FinancialYear_fromMay(d) ==
    IF d.month < 5
    THEN Str(d.year - 1) \o <<"-">> \o LastTwo(Str(d.year))
    ELSE Str(d.year) \o <<"-">> \o LastTwo(Str(d.year + 1))

FinancialYear(d) ==
    IF d.month < 4
    THEN Str(d.year - 1) \o <<"-">> \o LastTwo(Str(d.year))
    ELSE Str(d.year) \o <<"-">> \o LastTwo(Str(d.year + 1))

generate_invoice_number(inv, d) ==
    LET fy == FinancialYear(d)
        serial == countInvoices(inv) + 1
    IN  <<"I", "N", "V", "/">> \o fy \o <<"/">> \o Format04d(serial)

\* ------------------------------------------------------------- totals
RECURSIVE SumTotal(_)
SumTotal(items) ==
    IF items = <<>> THEN 0 ELSE Head(items).Total + SumTotal(Tail(items))

\* x * 0.09
NinePercent(x) == (x * 9) \div 100

\* Mutant: the grand total leaves out the SGST.
computeTotals_withoutSgst(items) ==
    LET subtotal == SumTotal(items)
        cgst == NinePercent(subtotal)
        sgst == NinePercent(subtotal)
    IN  [subtotal |-> subtotal, cgst |-> cgst, sgst |-> sgst,
         total |-> subtotal + cgst]

computeTotals(items) ==
    LET subtotal == SumTotal(items)
        cgst == NinePercent(subtotal)
        sgst == NinePercent(subtotal)
    IN  [subtotal |-> subtotal, cgst |-> cgst, sgst |-> sgst,
         total |-> subtotal + cgst + sgst]

\* ------------------------------------------------------------- transactions
\* A database is the pair of tables; each handler opens its own connection.
\* sqlite3 opens a transaction before the first INSERT/DELETE; its writes
\* are in `pending` and invisible to other connections until conn.commit().
\* `failAt` is the statement at which the storage raises OperationalError
\* (0 = none): the exception leaves the handler before conn.commit().

\* Mutant: the connection runs in autocommit mode, every statement is kept.
Rollback_autocommit(db, pending) == pending

\* The connection is dropped without commit: its pending writes are undone.
Rollback(db, pending) == db

Commit(db, pending) == pending

HeaderRow(no, customer_name, items) ==
    LET t == computeTotals(items)
    IN  [invoice_no |-> no, customer_name |-> customer_name,
         subtotal |-> t.subtotal, cgst |-> t.cgst, sgst |-> t.sgst,
         total |-> t.total]

ItemRow(no, item) ==
    [invoice_no |-> no, product |-> item.Product, quantity |-> item.Quantity,
     rate |-> item.Rate, total |-> item.Total]

RECURSIVE ItemRows(_, _)
ItemRows(no, items) ==
    IF items = <<>> THEN <<>>
    ELSE <<ItemRow(no, Head(items))>> \o ItemRows(no, Tail(items))

\* Mutant: INSERT OR REPLACE, a save overwrites the invoice of its number.
SaveTxn_replace(db, no, customer_name, items, failAt) ==
    IF failAt # 0
    THEN [db |-> db, msg |-> "OperationalError"]
    ELSE [db |-> [invoices |-> Append(RejectNo(db.invoices, no),
                                      HeaderRow(no, customer_name, items)),
                  invoice_items |-> RejectNo(db.invoice_items, no)
                                        \o ItemRows(no, items)],
          msg |-> "Invoice Saved Successfully"]

\* Mutant: invoice_no is declared without UNIQUE.
SaveTxn_notUnique(db, no, customer_name, items, failAt) ==
    IF failAt # 0
    THEN [db |-> db, msg |-> "OperationalError"]
    ELSE [db |-> [invoices |-> Append(db.invoices,
                                      HeaderRow(no, customer_name, items)),
                  invoice_items |-> db.invoice_items \o ItemRows(no, items)],
          msg |-> "Invoice Saved Successfully"]

\* Lines 173-208.  Statement 1 is the header INSERT, statements 2..n+1 the
\* item INSERTs, statement n+2 the commit.
SaveTxn(db, no, customer_name, items, failAt) ==
    LET n == Len(items)
        done == IF failAt = 0 THEN n
                ELSE IF failAt - 2 < n THEN failAt - 2 ELSE n
        withHeader == [db EXCEPT !.invoices =
                                   Append(@, HeaderRow(no, customer_name, items))]
        pending == [withHeader EXCEPT !.invoice_items =
                                   @ \o ItemRows(no, SubSeq(items, 1, done))]
    IN  IF failAt = 1
        THEN [db |-> Rollback(db, db), msg |-> "OperationalError"]
        ELSE IF HasInvoice(db.invoices, no)
        THEN [db |-> Rollback(db, db), msg |-> "IntegrityError"]
        ELSE IF failAt # 0
        THEN [db |-> Rollback(db, pending), msg |-> "OperationalError"]
        ELSE [db |-> Commit(db, pending), msg |-> "Invoice Saved Successfully"]

\* Mutant: the child rows are not deleted.
DeleteItems_skipped(rows, no) == rows

\* DELETE FROM invoice_items WHERE invoice_no=?
DeleteItems(rows, no) == RejectNo(rows, no)

\* DELETE FROM invoices WHERE invoice_no=?
DeleteHeader(inv, no) == RejectNo(inv, no)

\* Lines 348-360.  Statement 1 deletes the item rows, statement 2 the header,
\* statement 3 is the commit.
DeleteTxn(db, no, failAt) ==
    LET afterItems == [db EXCEPT !.invoice_items = DeleteItems(@, no)]
        afterHeader == [afterItems EXCEPT !.invoices = DeleteHeader(@, no)]
    IN  IF failAt = 1
        THEN [db |-> Rollback(db, db), msg |-> "OperationalError"]
        ELSE IF failAt = 2
        THEN [db |-> Rollback(db, afterItems), msg |-> "OperationalError"]
        ELSE IF failAt = 3
        THEN [db |-> Rollback(db, afterHeader), msg |-> "OperationalError"]
        ELSE [db |-> Commit(db, afterHeader),
              msg |-> "Invoice Deleted Successfully"]

\* ------------------------------------------------------------- state
AllSessions == {1, 2}

DB == [invoices |-> invoices, invoice_items |-> invoice_items]

\* No script run of session s is under way.
Idle(s) == clicked[s] = None

Opened(s) == session_state[s].invoice_no # None

\* init_db() on a new database.db; no browser session yet.
Init ==
    /\ invoices = <<>>
    /\ invoice_items = <<>>
    /\ session_state = [s \in AllSessions |->
                          [invoice_items |-> <<>>, invoice_no |-> None]]
    /\ today = Dates[1]
    /\ clicked = [s \in AllSessions |-> None]
    /\ msg = ""
    /\ deletedNos = {}

\* ------------------------------------------------------------- actions
\* The first script run of a session: lines 17-21 and 86-87.
OpenSession(s) ==
    /\ ~Opened(s)
    /\ session_state' = [session_state EXCEPT
           ![s].invoice_no = generate_invoice_number(invoices, today)]
    /\ msg' = ""
    /\ UNCHANGED <<invoices, invoice_items, today, clicked>>

\* Add Item with a blank product name: lines 119-121.
AddItemBlank(s, product) ==
    /\ Opened(s) /\ Idle(s)
    /\ Strip(product) = <<>>
    /\ msg' = "Enter product name"
    /\ UNCHANGED <<invoices, invoice_items, session_state, today, clicked>>

\* Add Item: lines 119-128.
AddItem(s, product, qty, rate) ==
    /\ Opened(s) /\ Idle(s)
    /\ Strip(product) # <<>>
    /\ session_state' = [session_state EXCEPT ![s].invoice_items =
           Append(@, [Product |-> product, Quantity |-> qty, Rate |-> rate,
                      Total |-> qty * rate])]
    /\ msg' = ""
    /\ UNCHANGED <<invoices, invoice_items, today, clicked>>

\* list.pop(i)
Pop(items, i) == SubSeq(items, 1, i - 1) \o SubSeq(items, i + 1, Len(items))

\* The delete button of draft row i: lines 148-150.
RemoveItem(s, i) ==
    /\ Opened(s) /\ Idle(s)
    /\ i \in 1..Len(session_state[s].invoice_items)
    /\ session_state' = [session_state EXCEPT ![s].invoice_items = Pop(@, i)]
    /\ msg' = ""
    /\ UNCHANGED <<invoices, invoice_items, today, clicked>>

\* A run that asks for a save while the draft is empty: line 135 skips the
\* block that holds the Save button.
SaveNoItems(s) ==
    /\ Opened(s) /\ Idle(s)
    /\ Len(session_state[s].invoice_items) = 0
    /\ msg' = ""
    /\ UNCHANGED <<invoices, invoice_items, session_state, today, clicked>>

\* Save Invoice with a blank customer name: lines 168-171.
SaveNoCustomer(s, customer_name) ==
    /\ Opened(s) /\ Idle(s)
    /\ Len(session_state[s].invoice_items) > 0
    /\ Strip(customer_name) = <<>>
    /\ msg' = "Customer name required"
    /\ UNCHANGED <<invoices, invoice_items, session_state, today, clicked>>

\* Save Invoice: lines 168-208.
SaveInvoice(s, customer_name, failAt) ==
    /\ Opened(s) /\ Idle(s)
    /\ Len(session_state[s].invoice_items) > 0
    /\ Strip(customer_name) # <<>>
    /\ failAt <= Len(session_state[s].invoice_items) + 2
    /\ LET r == SaveTxn(DB, session_state[s].invoice_no, customer_name,
                        session_state[s].invoice_items, failAt)
       IN  /\ invoices' = r.db.invoices
           /\ invoice_items' = r.db.invoice_items
           /\ msg' = r.msg
    /\ UNCHANGED <<session_state, today, clicked>>

\* Clear Invoice: lines 262-265.
ClearInvoice(s) ==
    /\ Opened(s) /\ Idle(s)
    /\ session_state' = [session_state EXCEPT
           ![s] = [invoice_items |-> <<>>,
                   invoice_no |-> generate_invoice_number(invoices, today)]]
    /\ msg' = ""
    /\ UNCHANGED <<invoices, invoice_items, today, clicked>>

\* A run whose Delete button was clicked, up to the history query of lines
\* 276-282: the button of row `no` exists only if the query returned it.
\* The rerun has wiped what the previous run displayed.
DeleteClick(s, no) ==
    /\ Opened(s) /\ Idle(s)
    /\ \E i \in 1..Len(listInvoices(invoices)) :
           listInvoices(invoices)[i].invoice_no = no
    /\ clicked' = [clicked EXCEPT ![s] = no]
    /\ msg' = ""
    /\ UNCHANGED <<invoices, invoice_items, session_state, today>>

\* The rest of that run: lines 346-361.
DeleteInvoice(s, failAt) ==
    /\ ~Idle(s)
    /\ LET r == DeleteTxn(DB, clicked[s], failAt)
       IN  /\ invoices' = r.db.invoices
           /\ invoice_items' = r.db.invoice_items
           /\ msg' = r.msg
    /\ clicked' = [clicked EXCEPT ![s] = None]
    /\ UNCHANGED <<session_state, today>>

\* The calendar moves on.
Tick ==
    /\ \E i \in 1..(Len(Dates) - 1) : today = Dates[i] /\ today' = Dates[i + 1]
    /\ UNCHANGED <<invoices, invoice_items, session_state, clicked, msg>>

\* History: with `on`, the numbers this step removes from invoices.
Track(on) ==
    deletedNos' =
        IF on
        THEN deletedNos \cup
             {invoices[k].invoice_no : k \in
                  {j \in 1..Len(invoices) :
                       ~HasInvoice(invoices', invoices[j].invoice_no)}}
        ELSE deletedNos

\* The events of the sessions S, with drafts of at most maxItems rows and
\* at most maxInvoices persisted invoices.
Run(S, maxItems, maxInvoices, on) ==
    \/ \E s \in S : OpenSession(s) /\ Track(on)
    \/ \E s \in S, p \in Products : AddItemBlank(s, p) /\ Track(on)
    \/ \E s \in S, p \in Products, q \in Quantities, r \in Rates :
           /\ Len(session_state[s].invoice_items) < maxItems
           /\ AddItem(s, p, q, r)
           /\ Track(on)
    \/ \E s \in S, i \in 1..maxItems : RemoveItem(s, i) /\ Track(on)
    \/ \E s \in S : SaveNoItems(s) /\ Track(on)
    \/ \E s \in S, c \in CustomerNames : SaveNoCustomer(s, c) /\ Track(on)
    \/ \E s \in S, c \in CustomerNames, f \in 0..(maxItems + 2) :
           /\ Len(invoices) < maxInvoices
           /\ SaveInvoice(s, c, f)
           /\ Track(on)
    \* With the table at its bound, only a save of a persisted number runs.
    \/ \E s \in S, c \in CustomerNames :
           /\ Len(invoices) >= maxInvoices
           /\ HasInvoice(invoices, session_state[s].invoice_no)
           /\ SaveInvoice(s, c, 0)
           /\ Track(on)
    \/ \E s \in S : ClearInvoice(s) /\ Track(on)
    \/ \E s \in S, h \in 1..Len(invoices) :
           DeleteClick(s, invoices[h].invoice_no) /\ Track(on)
    \/ \E s \in S, f \in 0..3 : DeleteInvoice(s, f) /\ Track(on)

\* One user, as the program is meant to be used, over a change of
\* financial year.
Next ==
    \/ Run({1}, MaxItems, MaxInvoices, FALSE)
    \/ Tick /\ Track(FALSE)

Spec == Init /\ [][Next]_vars

\* Two browser sessions on the same database.db.
NextShared == Run(AllSessions, MaxSharedItems, MaxSharedInvoices, FALSE)

SpecShared == Init /\ [][NextShared]_vars

\* One user within one financial year, with the history of deletions.
NextLifecycle == Run({1}, MaxItems, MaxInvoices, TRUE)

SpecLifecycle == Init /\ [][NextLifecycle]_vars

\* ------------------------------------------------------------- properties
\* Reading an invoice number back: INV/<yyyy>-<yy>/<serial>.
DigitVal(ch) == CHOOSE d \in 0..9 : DigitChars[d + 1] = ch

RECURSIVE NumVal(_)
NumVal(s) == IF s = <<>> THEN 0
             ELSE NumVal(SubSeq(s, 1, Len(s) - 1)) * 10 + DigitVal(s[Len(s)])

FYText(no) == SubSeq(no, 5, 11)

SerialText(no) == SubSeq(no, 13, Len(no))

Serial(no) == NumVal(SerialText(no))

IsBlank(text) == \A k \in 1..Len(text) : text[k] = " "

RECURSIVE SumLineTotals(_)
SumLineTotals(rows) ==
    IF rows = <<>> THEN 0
    ELSE rows[1].quantity * rows[1].rate + SumLineTotals(Tail(rows))

Header(inv, no) == inv[CHOOSE i \in 1..Len(inv) : inv[i].invoice_no = no]

\* The rows a draft is expected to persist as under number no.
DraftAsRows(no, items) ==
    [k \in 1..Len(items) |->
        [invoice_no |-> no, product |-> items[k].Product,
         quantity |-> items[k].Quantity, rate |-> items[k].Rate,
         total |-> items[k].Quantity * items[k].Rate]]

TablesUnchanged == UNCHANGED <<invoices, invoice_items>>

\* C1: every persisted header's subtotal is the sum of quantity x rate over
\* the item rows persisted under its number, each row's total is its
\* quantity x rate, cgst = sgst = 9% of the subtotal, and total = subtotal +
\* cgst + sgst.
C1_TotalsConsistent ==
    \A i \in 1..Len(invoices) :
        LET h == invoices[i]
            rows == getItems(invoice_items, h.invoice_no)
        IN  /\ \A j \in 1..Len(rows) :
                   rows[j].total = rows[j].quantity * rows[j].rate
            /\ h.subtotal = SumLineTotals(rows)
            /\ h.cgst * 100 = 9 * h.subtotal
            /\ h.sgst = h.cgst
            /\ h.total = h.subtotal + h.cgst + h.sgst

\* Two invoices are persisted, the older one with two item rows and a
\* grand total of 1.18 x (2 x 2 x 0.25).
C1_Witness ==
    /\ Len(invoices) = 2
    /\ Len(getItems(invoice_items, invoices[1].invoice_no)) = 2
    /\ invoices[1].subtotal = 10000
    /\ invoices[1].total = 11800
    /\ Len(getItems(invoice_items, invoices[2].invoice_no)) = 1

\* C2: a header that appears was written from the draft of a session that
\* holds its number, with exactly the draft's rows and the totals of those
\* rows; and as long as a number stays persisted, no step changes its
\* header or its item rows.
C2_RoundTripFixed ==
    [][ /\ \A i \in 1..Len(invoices) :
               LET n == invoices[i].invoice_no
               IN  HasInvoice(invoices', n) =>
                       /\ Header(invoices', n) = invoices[i]
                       /\ getItems(invoice_items', n) = getItems(invoice_items, n)
        /\ \A j \in 1..Len(invoices') :
               LET n == invoices'[j].invoice_no
               IN  ~HasInvoice(invoices, n) =>
                       \E s \in AllSessions :
                           LET draft == session_state[s].invoice_items
                           IN  /\ session_state[s].invoice_no = n
                               /\ getItems(invoice_items', n) = DraftAsRows(n, draft)
                               /\ Len(listInvoices(invoices')) = Len(invoices) + 1
                               /\ listInvoices(invoices')[1] = invoices'[j]
                               /\ invoices'[j].subtotal =
                                      SumLineTotals(DraftAsRows(n, draft))
                               /\ invoices'[j].total * 100 =
                                      118 * invoices'[j].subtotal
      ]_vars

\* The session's number is persisted with two rows, the draft has since
\* been cut to one row, and a further save of it was refused.
C2_Witness ==
    /\ HasInvoice(invoices, session_state[1].invoice_no)
    /\ Len(getItems(invoice_items, session_state[1].invoice_no)) = 2
    /\ Len(session_state[1].invoice_items) = 1
    /\ msg = "IntegrityError"

\* C3: a save with a blank customer name changes neither table, and a
\* header only ever appears with a non-blank customer name, from a draft
\* that holds at least one item.
C3_RejectedSavePersistsNothing ==
    [][ /\ msg' = "Customer name required" => TablesUnchanged
        /\ \A s \in AllSessions :
               (Opened(s) /\ session_state[s].invoice_items = <<>>) =>
                   (\A j \in 1..Len(invoices') :
                        invoices'[j].invoice_no = session_state[s].invoice_no
                            => HasInvoice(invoices, session_state[s].invoice_no))
        /\ \A j \in 1..Len(invoices') :
               ~HasInvoice(invoices, invoices'[j].invoice_no) =>
                   /\ ~IsBlank(invoices'[j].customer_name)
                   /\ getItems(invoice_items', invoices'[j].invoice_no) # <<>>
      ]_vars

\* A save with a blank name has just been refused while the draft holds an
\* item and nothing is persisted.
C3_Witness ==
    /\ msg = "Customer name required"
    /\ session_state[1].invoice_items # <<>>
    /\ invoices = <<>>
    /\ invoice_items = <<>>

\* C4: every header has at least one item row under its number and every
\* item row has a header with its number.
C4_NoPartialInvoice ==
    /\ \A i \in 1..Len(invoices) :
           getItems(invoice_items, invoices[i].invoice_no) # <<>>
    /\ \A k \in 1..Len(invoice_items) :
           HasInvoice(invoices, invoice_items[k].invoice_no)

\* A save of a two-row draft has just failed in the storage, with nothing
\* persisted before it.
C4_Witness ==
    /\ msg = "OperationalError"
    /\ invoices = <<>>
    /\ Len(session_state[1].invoice_items) = 2

C6_DeleteRemovesOnlyThat ==
    [][ \A s \in AllSessions :
            (~Idle(s) /\ HasInvoice(invoices, clicked[s])
                /\ clicked'[s] = None
                /\ msg' = "Invoice Deleted Successfully") =>
                /\ ~HasInvoice(invoices', clicked[s])
                /\ getItems(invoice_items', clicked[s]) = <<>>
                /\ \A i \in 1..Len(invoices) :
                       invoices[i].invoice_no # clicked[s] =>
                           /\ HasInvoice(invoices', invoices[i].invoice_no)
                           /\ Header(invoices', invoices[i].invoice_no) = invoices[i]
                           /\ getItems(invoice_items', invoices[i].invoice_no)
                                = getItems(invoice_items, invoices[i].invoice_no)
                /\ Len(invoices') = Len(invoices) - 1
                /\ Len(invoice_items') =
                       Len(invoice_items) - Len(getItems(invoice_items, clicked[s]))
      ]_vars

\* A delete has just succeeded and another invoice, with its rows, is still
\* persisted.
C6_Witness ==
    /\ msg = "Invoice Deleted Successfully"
    /\ Len(invoices) = 1
    /\ Len(invoice_items) = 2
    /\ Len(getItems(invoice_items, invoices[1].invoice_no)) = 2

\* C7: a step that generates a number (the first run of a session, or Clear
\* Invoice) sets it to INV/<FY>/<NNNN>, NNNN the count of persisted headers
\* plus one on at least four digits, FY the start year (this year from
\* April on, else last year), a dash and the last two digits of the
\* following year; March 2024 gives 2023-24 and April 2024 gives 2024-25;
\* an empty store gives 0001 and a store of one gives 0002; and the step
\* changes neither table.
C7_NumberFormat ==
    [][ \A s \in AllSessions :
            (OpenSession(s) \/ ClearInvoice(s)) =>
                LET no == session_state'[s].invoice_no
                    startYear == IF today.month >= 4 THEN today.year
                                 ELSE today.year - 1
                IN  /\ SubSeq(no, 1, 4) = <<"I", "N", "V", "/">>
                    /\ Len(FYText(no)) = 7
                    /\ NumVal(SubSeq(no, 5, 8)) = startYear
                    /\ no[9] = "-"
                    /\ NumVal(SubSeq(no, 10, 11)) = (startYear + 1) % 100
                    /\ no[12] = "/"
                    /\ Len(SerialText(no)) = 4
                    /\ Serial(no) = Len(invoices) + 1
                    /\ (today.year = 2024 /\ today.month = 3) =>
                           FYText(no) = <<"2", "0", "2", "3", "-", "2", "4">>
                    /\ (today.year = 2024 /\ today.month = 4) =>
                           FYText(no) = <<"2", "0", "2", "4", "-", "2", "5">>
                    /\ invoices = <<>> =>
                           SerialText(no) = <<"0", "0", "0", "1">>
                    /\ Len(invoices) = 1 =>
                           SerialText(no) = <<"0", "0", "0", "2">>
                    /\ TablesUnchanged
      ]_vars

\* In April 2024, with one invoice persisted, the session holds
\* INV/2024-25/0002.
C7_Witness ==
    /\ today = [year |-> 2024, month |-> 4]
    /\ Len(invoices) = 1
    /\ session_state[1].invoice_items = <<>>
    /\ session_state[1].invoice_no =
           <<"I", "N", "V", "/", "2", "0", "2", "4", "-", "2", "5", "/",
             "0", "0", "0", "2">>

\* C8: the serial of a number that a step generates is greater than the
\* serial of every persisted invoice of the same financial year.
C8_SerialMonotone ==
    [][ \A s \in AllSessions :
            (OpenSession(s) \/ ClearInvoice(s)) =>
                \A i \in 1..Len(invoices) :
                    FYText(invoices[i].invoice_no)
                        = FYText(session_state'[s].invoice_no)
                    => Serial(session_state'[s].invoice_no)
                           > Serial(invoices[i].invoice_no)
      ]_vars

\* C9: no header is persisted under a number whose header was deleted.
C9_DeletedIsTerminal ==
    \A i \in 1..Len(invoices) : invoices[i].invoice_no \notin deletedNos

\* C10: a delete run for a number that is no longer persisted does not
\* report success, and changes neither table.
C10_DeleteUnknownSignalsNotFound ==
    [][ \A s \in AllSessions :
            (~Idle(s) /\ ~HasInvoice(invoices, clicked[s]) /\ clicked'[s] = None)
                => /\ msg' # "Invoice Deleted Successfully"
                   /\ TablesUnchanged
      ]_vars

====
